---- MODULE Spec2Model ----
(***************************************************************************)
(* Model of mongotape's OP_COMMANDREPLY decoder and accessors              *)
(* (command_reply.go): CommandReplyOp.FromReader and the Replyable         *)
(* accessor set.                                                           *)
(*                                                                         *)
(* A byte is a natural number; a document on the wire is a sequence of     *)
(* bytes that starts with its own 4-byte little-endian length.  The body   *)
(* of a document is an abstraction of BSON: a list of two-byte elements    *)
(* <<kind, value>> followed by the terminating 0 byte.                     *)
(***************************************************************************)
EXTENDS Integers, Sequences, FiniteSets, TLC

\* ---------------------------------------------------------------- bounds
MaxDocs == 4
MaxCut == 1
MaxCalls == 2
MaxDecodes == 2
MaxThreads == 2

\* ------------------------------------------------------------- constants
MsgHeaderLen == 16
MaximumDocumentSize == 16777216

KindCursorId == 1
KindErr == 2
KindOther == 3

NilErr == "nil"
ErrTruncated == "TruncatedInputError"
ErrMalformedLength == "MalformedLengthError"
ErrUnmarshal == "UnmarshalError"
ErrFrameBoundary == "FrameBoundaryError"

\* The nil interface value of op.CommandReply / op.Metadata.
NilDoc == <<-1>>

\* ------------------------------------------------------------ documents
\* {}, a reply {cursor: {id: 42}, $err: 17} that carries a cursor id and an
\* error field, and a document whose body lacks its terminator.
EmptyDoc == <<5, 0, 0, 0, 0>>
ReplyDoc == <<9, 0, 0, 0, KindCursorId, 42, KindErr, 17, 0>>
CorruptDoc == <<7, 0, 0, 0, KindCursorId, 42, 9>>

DocAlphabet == {EmptyDoc, ReplyDoc, CorruptDoc}

RECURSIVE Concat(_)
Concat(docs) ==
    IF docs = <<>> THEN <<>> ELSE Head(docs) \o Concat(Tail(docs))

RECURSIVE SumLen(_)
SumLen(docs) ==
    IF docs = <<>> THEN 0 ELSE Len(Head(docs)) + SumLen(Tail(docs))

DocSeqs == UNION {[1..n -> DocAlphabet] : n \in 0..MaxDocs}

\* The document lengths a header may declare for a stream of docs: the end
\* of each document of the stream (0 for none) and one byte past it, which
\* is inside the next document or past the end of the stream.
DeclaredLengths(docs) ==
    UNION {{SumLen(SubSeq(docs, 1, k)), SumLen(SubSeq(docs, 1, k)) + 1} :
               k \in 0..Len(docs)}

\* --------------------------------------------------------- frame reader
\* 4-byte little-endian signed 32-bit integer at 0-based offset p.
getInt32(b, p) ==
    LET lo == b[p + 1] + 256 * b[p + 2] + 65536 * b[p + 3]
        hi == IF b[p + 4] >= 128 THEN b[p + 4] - 256 ELSE b[p + 4]
    IN  lo + 16777216 * hi

ZeroPad(b, n) == [i \in 1..n |-> IF i <= Len(b) THEN b[i] ELSE 0]

\* ReadDocument(r): the set of outcomes of reading one length-prefixed
\* document from stream s at offset p.  On success the outcome is unique.
\* On a stream that ends inside the document the slice handed back with
\* the error is not fixed by the contract: nothing, or the buffer of the
\* declared size holding the bytes that were available.
ReadDocument(s, p) ==
    IF Len(s) - p < 4
    THEN {[doc |-> <<>>, err |-> ErrTruncated, pos |-> Len(s)]}
    ELSE LET size == getInt32(s, p) IN
         IF size <= 0 \/ size > MaximumDocumentSize
         THEN {[doc |-> <<>>, err |-> ErrMalformedLength, pos |-> p + 4]}
         ELSE IF Len(s) - p < size
         THEN {[doc |-> d, err |-> ErrTruncated, pos |-> Len(s)] :
                   d \in {<<>>, ZeroPad(SubSeq(s, p + 1, Len(s)), size)}}
         ELSE {[doc |-> SubSeq(s, p + 1, p + size), err |-> NilErr,
                pos |-> p + size]}

\* bson.Unmarshal(in, out) with out a *bson.Raw: the bytes are stored in
\* the Raw as they are, without being parsed.
bsonUnmarshalRaw(in) == [err |-> NilErr, raw |-> in]

\* ------------------------------------------------ document contents
\* A document parses when its length prefix is its length, it ends with the
\* 0 terminator and its body is a list of <<kind, value>> elements of known
\* kinds.
WellFormed(d) ==
    /\ Len(d) >= 5
    /\ getInt32(d, 0) = Len(d)
    /\ d[Len(d)] = 0
    /\ (Len(d) - 5) % 2 = 0
    /\ \A i \in 1..((Len(d) - 5) \div 2) :
           d[3 + 2 * i] \in {KindCursorId, KindErr, KindOther}

Elements(d) ==
    [i \in 1..((Len(d) - 5) \div 2) |-> [kind |-> d[3 + 2 * i], val |-> d[4 + 2 * i]]]

\* Mutant of RawUnmarshalCursor: a document without cursor.id reported as
\* an unmarshal error.
RawUnmarshalCursor_MissingIsError(d) ==
    IF ~WellFormed(d)
    THEN [err |-> ErrUnmarshal, id |-> 0]
    ELSE LET es == SelectSeq(Elements(d), LAMBDA e : e.kind = KindCursorId)
         IN  IF es = <<>> THEN [err |-> ErrUnmarshal, id |-> 0]
             ELSE [err |-> NilErr, id |-> es[1].val]

\* (*bson.Raw).Unmarshal into struct{Cursor struct{Id int64}}: fails on
\* corrupt bson; a document without cursor.id leaves Id at its zero value.
RawUnmarshalCursor(d) ==
    IF ~WellFormed(d)
    THEN [err |-> ErrUnmarshal, id |-> 0]
    ELSE LET es == SelectSeq(Elements(d), LAMBDA e : e.kind = KindCursorId)
         IN  [err |-> NilErr, id |-> IF es = <<>> THEN 0 ELSE es[1].val]

\* (*bson.Raw).Unmarshal into a bson.D.
RawUnmarshalD(d) ==
    IF ~WellFormed(d)
    THEN [err |-> ErrUnmarshal, doc |-> <<>>]
    ELSE [err |-> NilErr, doc |-> Elements(d)]

\* extractErrorsFromDoc: one error per error field of the document.
extractErrorsFromDoc(doc) ==
    LET es == SelectSeq(doc, LAMBDA e : e.kind = KindErr)
    IN  [i \in 1..Len(es) |-> es[i].val]

\* ------------------------------------------------------ pure accessors
\* Mutant of LoopCond: the bound compared with <= instead of <.
LoopCondLE(lr, dl, msgLen) == lr + dl <= msgLen - MsgHeaderLen

\* Bound of the trailing-document loop (line 147).
LoopCond(lr, dl, msgLen) == lr + dl < msgLen - MsgHeaderLen

\* getNumReturned: len(op.Docs).
getNumReturnedOf(docs) == Len(docs)

\* getLatencyMicros: int64(op.Latency / time.Microsecond), on nanoseconds.
getLatencyMicrosOf(lat) == lat \div 1000

\* Mutant of getErrorsOf: the emptiness guard inverted, so that op.Docs[0]
\* is indexed on an empty slice.
getErrorsOf_InvertedGuard(docs) ==
    IF Len(docs) # 0
    THEN [panic |-> FALSE, errs |-> <<>>]
    ELSE [panic |-> TRUE, errs |-> <<>>]

\* getErrors: nil for an empty op.Docs, else the errors of op.Docs[0];
\* panics when op.Docs[0] does not unmarshal.
getErrorsOf(docs) ==
    IF Len(docs) = 0
    THEN [panic |-> FALSE, errs |-> <<>>]
    ELSE LET u == RawUnmarshalD(docs[1])
         IN  IF u.err # NilErr
             THEN [panic |-> TRUE, errs |-> <<>>]
             ELSE [panic |-> FALSE, errs |-> extractErrorsFromDoc(u.doc)]

\* Mutant of getCursorIdOf: the assignment op.cursorCached = true left out.
getCursorIdOf_NoCache(cached, id, reply) ==
    IF cached
    THEN [cursorCached |-> cached, cursorId |-> id, val |-> id,
          err |-> NilErr, panic |-> FALSE, parsed |-> FALSE]
    ELSE IF reply = NilDoc
    THEN [cursorCached |-> cached, cursorId |-> id, val |-> 0,
          err |-> NilErr, panic |-> TRUE, parsed |-> FALSE]
    ELSE LET u == RawUnmarshalCursor(reply)
         IN  IF u.err # NilErr
             THEN [cursorCached |-> cached, cursorId |-> id, val |-> 0,
                   err |-> ErrUnmarshal, panic |-> FALSE, parsed |-> TRUE]
             ELSE [cursorCached |-> cached, cursorId |-> u.id, val |-> u.id,
                   err |-> NilErr, panic |-> FALSE, parsed |-> TRUE]

\* Mutant of getCursorIdOf: op.cursorCached = true moved before the check
\* of the unmarshal error.
getCursorIdOf_CacheEarly(cached, id, reply) ==
    IF cached
    THEN [cursorCached |-> cached, cursorId |-> id, val |-> id,
          err |-> NilErr, panic |-> FALSE, parsed |-> FALSE]
    ELSE IF reply = NilDoc
    THEN [cursorCached |-> cached, cursorId |-> id, val |-> 0,
          err |-> NilErr, panic |-> TRUE, parsed |-> FALSE]
    ELSE LET u == RawUnmarshalCursor(reply)
         IN  IF u.err # NilErr
             THEN [cursorCached |-> TRUE, cursorId |-> id, val |-> 0,
                   err |-> ErrUnmarshal, panic |-> FALSE, parsed |-> TRUE]
             ELSE [cursorCached |-> TRUE, cursorId |-> u.id, val |-> u.id,
                   err |-> NilErr, panic |-> FALSE, parsed |-> TRUE]

\* Mutant of getCursorIdOf: the assignment op.cursorId = doc.Cursor.Id left
\* out, so that the field returned is the one never stored.
getCursorIdOf_NoStore(cached, id, reply) ==
    IF cached
    THEN [cursorCached |-> cached, cursorId |-> id, val |-> id,
          err |-> NilErr, panic |-> FALSE, parsed |-> FALSE]
    ELSE IF reply = NilDoc
    THEN [cursorCached |-> cached, cursorId |-> id, val |-> 0,
          err |-> NilErr, panic |-> TRUE, parsed |-> FALSE]
    ELSE LET u == RawUnmarshalCursor(reply)
         IN  IF u.err # NilErr
             THEN [cursorCached |-> cached, cursorId |-> id, val |-> 0,
                   err |-> ErrUnmarshal, panic |-> FALSE, parsed |-> TRUE]
             ELSE [cursorCached |-> TRUE, cursorId |-> id, val |-> id,
                   err |-> NilErr, panic |-> FALSE, parsed |-> TRUE]

\* getCursorId as one sequential call: the fields after the call, the
\* returned pair and whether the primary document was unmarshalled.
getCursorIdOf(cached, id, reply) ==
    IF cached
    THEN [cursorCached |-> cached, cursorId |-> id, val |-> id,
          err |-> NilErr, panic |-> FALSE, parsed |-> FALSE]
    ELSE IF reply = NilDoc
    THEN [cursorCached |-> cached, cursorId |-> id, val |-> 0,
          err |-> NilErr, panic |-> TRUE, parsed |-> FALSE]
    ELSE LET u == RawUnmarshalCursor(reply)
         IN  IF u.err # NilErr
             THEN [cursorCached |-> cached, cursorId |-> id, val |-> 0,
                   err |-> ErrUnmarshal, panic |-> FALSE, parsed |-> TRUE]
             ELSE [cursorCached |-> TRUE, cursorId |-> u.id, val |-> u.id,
                   err |-> NilErr, panic |-> FALSE, parsed |-> TRUE]

\* ------------------------------------------------------------ rendering
\* A string is a sequence of tokens; a token stands for a run of characters
\* and counts as one character of an Abbreviate budget.
KindName(k) ==
    IF k = KindCursorId THEN "cursor.id" ELSE IF k = KindErr THEN "$err" ELSE "x"

RECURSIVE RenderElems(_)
RenderElems(es) ==
    IF es = <<>> THEN <<>>
    ELSE <<KindName(es[1].kind), ToString(es[1].val)>> \o RenderElems(Tail(es))

\* ConvertBSONValueToJSON followed by json.Marshal, on one document: a nil
\* value renders as null, a document that does not parse is an error.
RenderDoc(d) ==
    IF d = NilDoc THEN [err |-> NilErr, str |-> <<"null">>]
    ELSE IF ~WellFormed(d) THEN [err |-> ErrUnmarshal, str |-> <<>>]
    ELSE [err |-> NilErr, str |-> <<"{">> \o RenderElems(Elements(d)) \o <<"}">>]

\* The same on the slice op.OutputDocs: a JSON array of the documents.
RECURSIVE RenderDocs(_)
RenderDocs(ds) ==
    IF ds = <<>> THEN [err |-> NilErr, str |-> <<>>]
    ELSE LET h == RenderDoc(Head(ds))
             t == RenderDocs(Tail(ds))
         IN  IF h.err # NilErr THEN h
             ELSE IF t.err # NilErr THEN t
             ELSE [err |-> NilErr, str |-> h.str \o t.str]

\* Abbreviate(data, maxLen): data cut to maxLen characters, marked with an
\* ellipsis when something was cut.
Abbreviate(data, maxLen) ==
    IF Len(data) <= maxLen THEN data ELSE SubSeq(data, 1, maxLen) \o <<"...">>

\* fmt.Sprintf with a format of literal tokens and %v verbs and string
\* operands: each verb takes the next operand, a verb without operand
\* prints %!v(MISSING), operands left over are reported after the text as
\* %!(EXTRA string=...).
RECURSIVE SprintfExtra(_)
SprintfExtra(args) ==
    IF args = <<>> THEN <<>>
    ELSE <<"string=">> \o Head(args)
         \o (IF Tail(args) = <<>> THEN <<>> ELSE <<", ">>)
         \o SprintfExtra(Tail(args))

RECURSIVE Sprintf(_, _)
Sprintf(format, args) ==
    IF format = <<>>
    THEN IF args = <<>> THEN <<>>
         ELSE <<"%!(EXTRA ">> \o SprintfExtra(args) \o <<")">>
    ELSE IF Head(format) = "%v"
    THEN IF args = <<>>
         THEN <<"%!v(MISSING)">> \o Sprintf(Tail(format), args)
         ELSE Head(args) \o Sprintf(Tail(format), Tail(args))
    ELSE <<Head(format)>> \o Sprintf(Tail(format), args)

\* getOpBodyString: the three renderings, or the first rendering error.
getOpBodyString(reply, meta, outs) ==
    LET c == RenderDoc(reply)
        m == RenderDoc(meta)
        o == IF Len(outs) # 0 THEN RenderDocs(outs)
             ELSE [err |-> NilErr, str |-> <<>>]
    IN  IF c.err # NilErr THEN [err |-> c.err, s1 |-> <<>>, s2 |-> <<>>, s3 |-> <<>>]
        ELSE IF m.err # NilErr THEN [err |-> m.err, s1 |-> <<>>, s2 |-> <<>>, s3 |-> <<>>]
        ELSE IF o.err # NilErr THEN [err |-> o.err, s1 |-> <<>>, s2 |-> <<>>, s3 |-> <<>>]
        ELSE [err |-> NilErr, s1 |-> c.str, s2 |-> m.str,
              s3 |-> IF Len(outs) # 0 THEN <<"[">> \o o.str \o <<"]">> ELSE <<>>]

\* The format strings of String (line 48) and Abbreviated (line 56).
StringFormat == <<"CommandReply", " ", "%v", " ", "%v", " ", "%v">>
AbbreviatedFormat == <<"CommandReply", " ", "%v", " ", "%v">>

\* String().
StringOf(reply, meta, outs) ==
    LET b == getOpBodyString(reply, meta, outs)
    IN  IF b.err # NilErr THEN Sprintf(<<"%v">>, <<<<b.err>>>>)
        ELSE Sprintf(StringFormat, <<b.s1, b.s2, b.s3>>)

\* Abbreviated(chars).
AbbreviatedOf(reply, meta, outs, chars) ==
    LET b == getOpBodyString(reply, meta, outs)
    IN  IF b.err # NilErr THEN Sprintf(<<"%v">>, <<<<b.err>>>>)
        ELSE Sprintf(AbbreviatedFormat,
                     <<Abbreviate(b.s1, chars), Abbreviate(b.s2, chars),
                       Abbreviate(b.s3, chars)>>)

\* Meta(): the operation name and the map of the three document fields.
MetaOf(reply, meta, outs) ==
    [name |-> "op_commandreply", metadata |-> meta, command_reply |-> reply,
     output_docs |-> outs]

\* ----------------------------------------------------------- variables
VARIABLES
    MessageLength,        \* op.Header.MessageLength
    CommandReply,         \* op.CommandReply (NilDoc or the Raw's bytes)
    Metadata,             \* op.Metadata
    OutputDocs,           \* op.OutputDocs
    Docs,                 \* op.Docs
    Latency,              \* op.Latency, in nanoseconds
    cursorCached,         \* op.cursorCached
    cursorId,             \* op.cursorId
    stream,               \* the bytes behind the io.Reader
    pos,                  \* the reader's offset in stream
    pc,                   \* position of the FromReader call
    commandReplyAsSlice,  \* FromReader local
    lengthRead,           \* FromReader local
    docLen,               \* FromReader local
    err,                  \* value returned by the last FromReader
    ret,                  \* what the last accessor call returned
    tpc,                  \* per thread: position in a concurrent getCursorId
    tdoc,                 \* per thread: doc.Cursor.Id of its unmarshal
    tret,                 \* per thread: what its getCursorId returned
    docsIn,               \* history: the documents the stream was built of
    cut,                  \* history: bytes missing at the end of the stream
    startPos,             \* history: offset at which the last FromReader began
    decodes,              \* history: number of FromReader calls begun
    readErr,              \* history: first ReadDocument error of this call
    cursorCalls,          \* history: getCursorId calls since decode
    parseCount,           \* history: unmarshals by getCursorId since decode
    parseOK,              \* history: those of them that succeeded
    cursorRets,           \* history: pairs getCursorId returned since decode
    cacheSrc              \* history: op.CommandReply when the cache was resolved

record == <<MessageLength, CommandReply, Metadata, OutputDocs, Docs, Latency,
            cursorCached, cursorId>>
reader == <<stream, pos>>
locals == <<pc, commandReplyAsSlice, lengthRead, docLen, err>>
threads == <<tpc, tdoc, tret>>
history == <<docsIn, cut, startPos, decodes, readErr>>
cursorHist == <<cursorCalls, parseCount, parseOK, cursorRets>>
vars == <<record, reader, locals, ret, threads, history, cursorHist, cacheSrc>>

Threads == 1..MaxThreads
MaxOutputDocs == MaxDocs + 2
AbbrevBudgets == {2}
NoRet ==
    [op |-> "none", val |-> 0, errs |-> <<>>, err |-> NilErr, panic |-> FALSE,
     str |-> <<>>, docs |-> <<>>]

Init ==
    /\ \E ds \in DocSeqs, c \in 0..MaxCut :
          /\ c <= SumLen(ds)
          /\ docsIn = ds
          /\ cut = c
          /\ stream = SubSeq(Concat(ds), 1, SumLen(ds) - c)
          /\ MessageLength \in {MsgHeaderLen + n : n \in DeclaredLengths(ds)}
    /\ CommandReply = NilDoc
    /\ Metadata = NilDoc
    /\ OutputDocs = <<>>
    /\ Docs = <<>>
    /\ Latency = 1500
    /\ cursorCached = FALSE
    /\ cursorId = 0
    /\ pos = 0
    /\ pc = "idle"
    /\ commandReplyAsSlice = <<>>
    /\ lengthRead = 0
    /\ docLen = 0
    /\ err = NilErr
    /\ ret = NoRet
    /\ tpc = [t \in Threads |-> "idle"]
    /\ tdoc = [t \in Threads |-> 0]
    /\ tret = [t \in Threads |-> [val |-> 0, err |-> NilErr]]
    /\ startPos = 0
    /\ decodes = 0
    /\ readErr = NilErr
    /\ cursorCalls = 0
    /\ parseCount = 0
    /\ parseOK = 0
    /\ cursorRets = {}
    /\ cacheSrc = NilDoc

\* No FromReader call is running and no getCursorId call is in flight.
Quiet ==
    /\ pc \in {"idle", "done"}
    /\ \A t \in Threads : tpc[t] \in {"idle", "returned"}

\* ------------------------------------------------------------ FromReader
\* Lines 124-132: read and store the command reply document.
FromReader_CommandReply ==
    /\ Quiet
    /\ \A t \in Threads : tpc[t] = "idle"
    /\ decodes < MaxDecodes
    /\ decodes' = decodes + 1
    /\ startPos' = pos
    /\ ret' = NoRet
    /\ cursorCalls' = 0 /\ parseCount' = 0 /\ parseOK' = 0 /\ cursorRets' = {}
    /\ \E o \in ReadDocument(stream, pos) :
          /\ pos' = o.pos
          /\ readErr' = o.err
          /\ IF o.err # NilErr
             THEN /\ pc' = "done" /\ err' = o.err
                  /\ UNCHANGED <<CommandReply, commandReplyAsSlice>>
             ELSE LET u == bsonUnmarshalRaw(o.doc) IN
                  /\ CommandReply' = u.raw
                  /\ IF u.err # NilErr
                     THEN /\ pc' = "done" /\ err' = u.err
                          /\ UNCHANGED commandReplyAsSlice
                     ELSE /\ pc' = "metadata" /\ err' = NilErr
                          /\ commandReplyAsSlice' = o.doc
    /\ UNCHANGED <<cacheSrc, MessageLength, Metadata, OutputDocs, Docs, Latency,
                   cursorCached, cursorId, stream, lengthRead, docLen,
                   threads, docsIn, cut>>

\* Lines 134-146: read and store the metadata document, start the count.
FromReader_Metadata ==
    /\ pc = "metadata"
    /\ \E o \in ReadDocument(stream, pos) :
          /\ pos' = o.pos
          /\ readErr' = o.err
          /\ IF o.err # NilErr
             THEN /\ pc' = "done" /\ err' = o.err
                  /\ commandReplyAsSlice' = <<>>
                  /\ UNCHANGED <<Metadata, OutputDocs, lengthRead, docLen>>
             ELSE LET u == bsonUnmarshalRaw(o.doc) IN
                  /\ Metadata' = u.raw
                  /\ IF u.err # NilErr
                     THEN /\ pc' = "done" /\ err' = u.err
                          /\ commandReplyAsSlice' = <<>>
                          /\ UNCHANGED <<OutputDocs, lengthRead, docLen>>
                     ELSE /\ pc' = "loop"
                          /\ lengthRead' = Len(commandReplyAsSlice) + Len(o.doc)
                          /\ OutputDocs' = <<>>
                          /\ docLen' = 0
                          /\ UNCHANGED <<err, commandReplyAsSlice>>
    /\ UNCHANGED <<cacheSrc, MessageLength, CommandReply, Docs, Latency, cursorCached,
                   cursorId, stream, ret, threads, docsIn, cut, startPos,
                   decodes, cursorHist>>

\* Lines 147-156: one iteration of the trailing-document loop.  The error
\* of ReadDocument is overwritten by the result of bson.Unmarshal.
FromReader_Loop ==
    /\ pc = "loop"
    /\ LoopCond(lengthRead, docLen, MessageLength)
    /\ Len(OutputDocs) < MaxOutputDocs
    /\ \E o \in ReadDocument(stream, pos) :
          /\ pos' = o.pos
          /\ readErr' = IF readErr = NilErr THEN o.err ELSE readErr
          /\ LET u == bsonUnmarshalRaw(o.doc) IN
             IF u.err # NilErr
             THEN /\ pc' = "done" /\ err' = u.err
                  /\ commandReplyAsSlice' = <<>>
                  /\ lengthRead' = 0 /\ docLen' = 0
                  /\ UNCHANGED OutputDocs
             ELSE /\ docLen' = docLen + Len(o.doc)
                  /\ OutputDocs' = Append(OutputDocs, u.raw)
                  /\ UNCHANGED <<pc, err, commandReplyAsSlice, lengthRead>>
    /\ UNCHANGED <<cacheSrc, MessageLength, CommandReply, Metadata, Docs, Latency,
                   cursorCached, cursorId, stream, ret, threads, docsIn, cut,
                   startPos, decodes, cursorHist>>

\* Mutant of FromReader_Return: a decode that succeeds clears the cursor
\* cache of the record.
FromReader_Return_ResetsCache ==
    /\ pc = "loop"
    /\ ~LoopCond(lengthRead, docLen, MessageLength)
    /\ pc' = "done"
    /\ err' = NilErr
    /\ commandReplyAsSlice' = <<>>
    /\ lengthRead' = 0
    /\ docLen' = 0
    /\ cursorCached' = FALSE
    /\ cursorId' = 0
    /\ UNCHANGED <<cacheSrc, MessageLength, CommandReply, Metadata, OutputDocs,
                   Docs, Latency, reader, ret, threads, history, cursorHist>>

\* Lines 147 and 157: the loop condition fails and FromReader returns nil.
FromReader_Return ==
    /\ pc = "loop"
    /\ ~LoopCond(lengthRead, docLen, MessageLength)
    /\ pc' = "done"
    /\ err' = NilErr
    /\ commandReplyAsSlice' = <<>>
    /\ lengthRead' = 0
    /\ docLen' = 0
    /\ UNCHANGED <<cacheSrc, record, reader, ret, threads, history, cursorHist>>

FromReader ==
    \/ FromReader_CommandReply
    \/ FromReader_Metadata
    \/ FromReader_Loop
    \/ FromReader_Return

\* ------------------------------------------------------------- accessors
CanCall == Quiet

getNumReturned ==
    /\ CanCall
    /\ ret' = [NoRet EXCEPT !.op = "getNumReturned",
                            !.val = getNumReturnedOf(Docs)]
    /\ UNCHANGED <<cacheSrc, record, reader, locals, threads, history, cursorHist>>

getLatencyMicros ==
    /\ CanCall
    /\ ret' = [NoRet EXCEPT !.op = "getLatencyMicros",
                            !.val = getLatencyMicrosOf(Latency)]
    /\ UNCHANGED <<cacheSrc, record, reader, locals, threads, history, cursorHist>>

getErrors ==
    /\ CanCall
    /\ LET r == getErrorsOf(Docs) IN
       ret' = [NoRet EXCEPT !.op = "getErrors", !.errs = r.errs,
                            !.panic = r.panic]
    /\ UNCHANGED <<cacheSrc, record, reader, locals, threads, history, cursorHist>>

getCursorId ==
    /\ CanCall
    /\ cursorCalls < MaxCalls
    /\ cursorCalls' = cursorCalls + 1
    /\ LET r == getCursorIdOf(cursorCached, cursorId, CommandReply) IN
       /\ cursorCached' = r.cursorCached
       /\ cursorId' = r.cursorId
       /\ ret' = [NoRet EXCEPT !.op = "getCursorId", !.val = r.val,
                               !.err = r.err, !.panic = r.panic]
       /\ parseCount' = parseCount + (IF r.parsed THEN 1 ELSE 0)
       /\ parseOK' = parseOK + (IF r.parsed /\ r.err = NilErr THEN 1 ELSE 0)
       /\ cursorRets' = IF r.panic THEN cursorRets
                        ELSE cursorRets \cup {<<r.val, r.err>>}
       /\ cacheSrc' = IF r.cursorCached /\ ~cursorCached THEN CommandReply
                      ELSE cacheSrc
    /\ UNCHANGED <<MessageLength, CommandReply, Metadata, OutputDocs, Docs,
                   Latency, reader, locals, threads, history>>

\* ------------------------------------------- concurrent getCursorId calls
\* A thread enters getCursorId on the record.
T_Call(t) ==
    /\ pc \in {"idle", "done"}
    /\ tpc[t] = "idle"
    /\ tpc' = [tpc EXCEPT ![t] = "check"]
    /\ UNCHANGED <<cacheSrc, record, reader, locals, ret, tdoc, tret, history, cursorHist>>

\* Line 66: read op.cursorCached.
T_Check(t) ==
    /\ tpc[t] = "check"
    /\ tpc' = [tpc EXCEPT ![t] = IF cursorCached THEN "cached" ELSE "unmarshal"]
    /\ UNCHANGED <<cacheSrc, record, reader, locals, ret, tdoc, tret, history, cursorHist>>

\* Line 67: read op.cursorId and return it.
T_ReturnCached(t) ==
    /\ tpc[t] = "cached"
    /\ tret' = [tret EXCEPT ![t] = [val |-> cursorId, err |-> NilErr]]
    /\ tpc' = [tpc EXCEPT ![t] = "returned"]
    /\ UNCHANGED <<cacheSrc, record, reader, locals, ret, tdoc, history, cursorHist>>

\* Lines 69-79: unmarshal the command reply into the local doc.
T_Unmarshal(t) ==
    /\ tpc[t] = "unmarshal"
    /\ IF CommandReply = NilDoc
       THEN /\ tpc' = [tpc EXCEPT ![t] = "panicked"]
            /\ UNCHANGED <<tdoc, tret>>
       ELSE LET u == RawUnmarshalCursor(CommandReply) IN
            IF u.err # NilErr
            THEN /\ tret' = [tret EXCEPT ![t] = [val |-> 0, err |-> ErrUnmarshal]]
                 /\ tpc' = [tpc EXCEPT ![t] = "returned"]
                 /\ UNCHANGED tdoc
            ELSE /\ tdoc' = [tdoc EXCEPT ![t] = u.id]
                 /\ tpc' = [tpc EXCEPT ![t] = "setCached"]
                 /\ UNCHANGED tret
    /\ UNCHANGED <<cacheSrc, record, reader, locals, ret, history, cursorHist>>

\* Line 80: op.cursorCached = true.
T_SetCached(t) ==
    /\ tpc[t] = "setCached"
    /\ cursorCached' = TRUE
    /\ tpc' = [tpc EXCEPT ![t] = "setId"]
    /\ UNCHANGED <<cacheSrc, MessageLength, CommandReply, Metadata, OutputDocs, Docs,
                   Latency, cursorId, reader, locals, ret, tdoc, tret, history,
                   cursorHist>>

\* Line 81: op.cursorId = doc.Cursor.Id.
T_SetId(t) ==
    /\ tpc[t] = "setId"
    /\ cursorId' = tdoc[t]
    /\ tpc' = [tpc EXCEPT ![t] = "return"]
    /\ UNCHANGED <<cacheSrc, MessageLength, CommandReply, Metadata, OutputDocs, Docs,
                   Latency, cursorCached, reader, locals, ret, tdoc, tret,
                   history, cursorHist>>

\* Line 82: return op.cursorId, nil.
T_Return(t) ==
    /\ tpc[t] = "return"
    /\ tret' = [tret EXCEPT ![t] = [val |-> cursorId, err |-> NilErr]]
    /\ tpc' = [tpc EXCEPT ![t] = "returned"]
    /\ UNCHANGED <<cacheSrc, record, reader, locals, ret, tdoc, history, cursorHist>>

\* Mutant of Execute: the latency of the reply recorded on the op, as the
\* Execute of the ops that are sent to a server does.
Execute_SetsLatency ==
    /\ CanCall
    /\ ret' = [NoRet EXCEPT !.op = "Execute"]
    /\ Latency' = Latency + 1000
    /\ UNCHANGED <<cacheSrc, MessageLength, CommandReply, Metadata, OutputDocs, Docs,
                   cursorCached, cursorId, reader, locals, threads, history,
                   cursorHist>>

\* Execute: logs that the op is skipped and returns nil, nil.
Execute ==
    /\ CanCall
    /\ ret' = [NoRet EXCEPT !.op = "Execute"]
    /\ UNCHANGED <<cacheSrc, record, reader, locals, threads, history, cursorHist>>

OpCode ==
    /\ CanCall
    /\ ret' = [NoRet EXCEPT !.op = "OpCode", !.str = <<"OpCodeCommandReply">>]
    /\ UNCHANGED <<cacheSrc, record, reader, locals, threads, history, cursorHist>>

Meta ==
    /\ CanCall
    /\ LET m == MetaOf(CommandReply, Metadata, OutputDocs) IN
       ret' = [NoRet EXCEPT !.op = "Meta", !.str = <<m.name>>,
                            !.docs = <<m.metadata, m.command_reply>> \o m.output_docs]
    /\ UNCHANGED <<cacheSrc, record, reader, locals, threads, history, cursorHist>>

String ==
    /\ CanCall
    /\ ret' = [NoRet EXCEPT !.op = "String",
                            !.str = StringOf(CommandReply, Metadata, OutputDocs)]
    /\ UNCHANGED <<cacheSrc, record, reader, locals, threads, history, cursorHist>>

Abbreviated ==
    /\ CanCall
    /\ \E chars \in AbbrevBudgets :
          ret' = [NoRet EXCEPT !.op = "Abbreviated", !.val = chars,
                     !.str = AbbreviatedOf(CommandReply, Metadata, OutputDocs, chars)]
    /\ UNCHANGED <<cacheSrc, record, reader, locals, threads, history, cursorHist>>

Next ==
    \/ FromReader
    \/ getNumReturned
    \/ getLatencyMicros
    \/ getErrors
    \/ getCursorId
    \/ OpCode
    \/ Meta
    \/ String
    \/ Abbreviated
    \/ Execute

Spec == Init /\ [][Next]_vars

NextConc ==
    \/ FromReader
    \/ \E t \in Threads : T_Call(t)
    \/ \E t \in Threads : T_Check(t)
    \/ \E t \in Threads : T_ReturnCached(t)
    \/ \E t \in Threads : T_Unmarshal(t)
    \/ \E t \in Threads : T_SetCached(t)
    \/ \E t \in Threads : T_SetId(t)
    \/ \E t \in Threads : T_Return(t)

SpecConc == Init /\ [][NextConc]_vars

\* ================================================================ claims
\* The number of bytes the header declares for the documents.
Target == MessageLength - MsgHeaderLen

\* The first FromReader call on a stream that holds docsIn in full.
FirstDecodeOfWholeStream == decodes = 1 /\ cut = 0

\* ... with at least two documents and a header declaring their exact size.
ExactFrame ==
    /\ FirstDecodeOfWholeStream
    /\ Len(docsIn) >= 2
    /\ Target = SumLen(docsIn)

\* C1: round-trip framing.  Decoding N >= 2 documents written back to back
\* under a header that declares their exact total length returns no error,
\* with the 1st document as CommandReply, the 2nd as Metadata and the other
\* N-2, in wire order and byte for byte, as OutputDocs; the whole stream is
\* read, no read fails, and at no point of the decode are there more than
\* N-2 output documents.
C1_RoundTrip ==
    ExactFrame =>
        /\ readErr = NilErr
        /\ Len(OutputDocs) <= Len(docsIn) - 2
        /\ pc = "done" =>
              /\ err = NilErr
              /\ CommandReply = docsIn[1]
              /\ Metadata = docsIn[2]
              /\ OutputDocs = SubSeq(docsIn, 3, Len(docsIn))
              /\ pos = Len(stream)
              /\ pos - startPos = Target

C1_Witness ==
    /\ ExactFrame
    /\ pc = "done"
    /\ err = NilErr
    /\ Len(docsIn) = 3
    /\ OutputDocs = <<docsIn[3]>>

\* C2: byte accounting.  Whenever FromReader returns success, the bytes it
\* consumed from the stream are exactly Header.MessageLength - MsgHeaderLen.
C2_ByteAccounting ==
    (pc = "done" /\ err = NilErr) => pos - startPos = Target

\* The declared length ends inside the k-th document of the stream, k >= 3.
CrossedBy(k) ==
    /\ SumLen(SubSeq(docsIn, 1, k - 1)) < Target
    /\ Target < SumLen(SubSeq(docsIn, 1, k))

\* C3: boundary overshoot is an error.  When the declared length ends in
\* the middle of an output document, FromReader returns a frame-boundary
\* error and OutputDocs does not hold the document that crossed the boundary.
C3_OvershootIsError ==
    \A k \in 3..Len(docsIn) :
        (pc = "done" /\ FirstDecodeOfWholeStream /\ CrossedBy(k)) =>
            /\ err = ErrFrameBoundary
            /\ Len(OutputDocs) < k - 2

\* C4: read failures are surfaced.  Once a ReadDocument of the current
\* FromReader call has failed, the call has returned, and returned that error.
C4_ReadFailureSurfaced ==
    readErr # NilErr => (pc = "done" /\ err = readErr)

\* C5: on a record produced by a successful FromReader, getNumReturned()
\* is the number of output documents.
C5_NumReturned ==
    (ret.op = "getNumReturned" /\ pc = "done" /\ err = NilErr) =>
        ret.val = Len(OutputDocs)

\* C6: on a record produced by a successful FromReader with at least one
\* output document, getErrors() returns the errors of the first output
\* document.
C6_ErrorsOfFirstOutputDoc ==
    (/\ ret.op = "getErrors"
     /\ pc = "done"
     /\ err = NilErr
     /\ Len(OutputDocs) >= 1
     /\ WellFormed(OutputDocs[1])) =>
        /\ ~ret.panic
        /\ ret.errs = extractErrorsFromDoc(RawUnmarshalD(OutputDocs[1]).doc)

\* C7: getErrors() on a record with zero output documents returns the
\* empty (nil) list and does not panic, in every state of the record.
C7_NoErrorsWithoutOutputDocs ==
    (ret.op = "getErrors" /\ Len(OutputDocs) = 0) =>
        (ret.errs = <<>> /\ ~ret.panic)

C7_Witness ==
    /\ ret.op = "getErrors"
    /\ pc = "done"
    /\ err = NilErr
    /\ CommandReply # NilDoc
    /\ Len(OutputDocs) = 0
    /\ ret.errs = <<>>

\* C8 as stated: on one decoded record all getCursorId() calls return the
\* same pair, and the primary document is unmarshalled at most once,
\* failed unmarshals included.
C8_ParseAtMostOnce ==
    (pc = "done" /\ err = NilErr) =>
        /\ Cardinality(cursorRets) <= 1
        /\ parseCount <= 1

\* C8 amended: on one decoded record all getCursorId() calls return the
\* same pair, and the primary document is unmarshalled successfully at
\* most once, after which it is not unmarshalled again; only an unmarshal
\* that fails is repeated by the next call.
C8_SuccessfulParseAtMostOnce ==
    (pc = "done" /\ err = NilErr) =>
        /\ Cardinality(cursorRets) <= 1
        /\ parseOK <= 1
        /\ parseOK = 1 => parseCount = 1

C8_Witness ==
    /\ pc = "done"
    /\ err = NilErr
    /\ cursorCalls = 2
    /\ parseCount = 1
    /\ parseOK = 1
    /\ cursorRets = {<<42, NilErr>>}

\* C9: concurrent first-time getCursorId() on a decoded record.  Every
\* call that returns without error returns the cursor id of the primary
\* document, and no caller that has seen the resolved flag set reads a
\* cached id other than that one.
C9_ConcurrentCallersAgree ==
    (pc = "done" /\ err = NilErr) =>
        \A t \in Threads :
            /\ (tpc[t] = "returned" /\ tret[t].err = NilErr) =>
                   tret[t].val = RawUnmarshalCursor(CommandReply).id
            /\ tpc[t] = "cached" =>
                   cursorId = RawUnmarshalCursor(CommandReply).id

\* C10: a getCursorId() whose unmarshal fails returns (0, error) and
\* leaves every field of the record as it was, so the other accessors
\* return what they returned before.
C10_FailedCursorIdKeepsRecord ==
    [][(cursorCalls' = cursorCalls + 1 /\ ret'.err = ErrUnmarshal) =>
          /\ ret'.val = 0
          /\ UNCHANGED record
          /\ getNumReturnedOf(Docs') = getNumReturnedOf(Docs)
          /\ getErrorsOf(Docs') = getErrorsOf(Docs)
          /\ getLatencyMicrosOf(Latency') = getLatencyMicrosOf(Latency)]_vars

C10_Witness ==
    /\ pc = "done"
    /\ err = NilErr
    /\ ret.op = "getCursorId"
    /\ ret.err = ErrUnmarshal
    /\ ret.val = 0
    /\ parseCount >= 1
    /\ ~cursorCached
    /\ cursorId = 0

\* The fields of the record other than the cursor cache.
decoded == <<MessageLength, CommandReply, Metadata, OutputDocs, Docs, Latency>>

\* A step of an accessor on a record whose FromReader has returned.
AccessorStep == pc = "done" /\ pc' = "done" /\ decodes' = decodes

\* C11: immutability after decode.  Once FromReader has returned, no call
\* of OpCode, Meta, String, Abbreviated, getNumReturned, getLatencyMicros,
\* getErrors, Execute or getCursorId changes Header, CommandReply, Metadata,
\* OutputDocs, Docs or Latency, and only getCursorId writes cursorCached or
\* cursorId.
C11_ImmutableAfterDecode ==
    [][AccessorStep =>
          /\ UNCHANGED decoded
          /\ (cursorCached' # cursorCached \/ cursorId' # cursorId) =>
                 ret'.op = "getCursorId"]_vars

C11_Witness ==
    /\ Len(docsIn) >= 3
    /\ pc = "done"
    /\ err = NilErr
    /\ cursorCached
    /\ cursorId = 42
    /\ ret.op = "Execute"
    /\ CommandReply = docsIn[1]
    /\ Metadata = docsIn[2]
    /\ OutputDocs = <<docsIn[3]>>

\* C12: the cursor-id cache is never invalidated.  Once cursorCached is
\* true it stays true and cursorId keeps its value through every operation,
\* FromReader included, and cursorCached becomes true only in a getCursorId
\* call whose unmarshal succeeded.
C12_CacheNeverInvalidated ==
    [][/\ cursorCached => (cursorCached' /\ cursorId' = cursorId)
       /\ (~cursorCached /\ cursorCached') =>
              /\ ret'.op = "getCursorId"
              /\ ret'.err = NilErr
              /\ parseOK' = parseOK + 1]_vars

C12_Witness ==
    /\ decodes = 2
    /\ pc = "done"
    /\ err = NilErr
    /\ cursorCached
    /\ cursorId = 42
    /\ parseOK = 0
    /\ CommandReply = EmptyDoc
    /\ ret.op = "getCursorId"

\* C13: on a decoded record Abbreviated(chars) is "CommandReply " followed by the renderings of
\* the primary document, the metadata and the output documents, each
\* passed through Abbreviate(segment, chars), separated by single spaces,
\* and nothing else.
C13_AbbreviatedThreeSegments ==
    LET b == getOpBodyString(CommandReply, Metadata, OutputDocs) IN
    (pc = "done" /\ err = NilErr /\ ret.op = "Abbreviated" /\ b.err = NilErr) =>
        ret.str = <<"CommandReply", " ">> \o Abbreviate(b.s1, ret.val)
                  \o <<" ">> \o Abbreviate(b.s2, ret.val)
                  \o <<" ">> \o Abbreviate(b.s3, ret.val)

\* C14: decode terminates.  The trailing-document loop does not iterate
\* without progress: an iteration that does not leave the loop has added
\* to docLen.
C14_LoopMakesProgress ==
    [][(pc = "loop" /\ pc' = "loop") => docLen' > docLen]_vars

\* C15 as stated: after a successful FromReader every getCursorId() call
\* that returns without error returns the cursor id of the primary document
\* that FromReader stored.
C15_CacheAgreesWithCurrentReply ==
    (/\ pc = "done"
     /\ err = NilErr
     /\ ret.op = "getCursorId"
     /\ ret.err = NilErr
     /\ ~ret.panic) =>
        ret.val = RawUnmarshalCursor(CommandReply).id

\* C15 amended: every getCursorId() call that returns without error
\* returns the cursor id of the primary document the record held when the
\* cache was resolved, by the first unmarshal that succeeded; that is the
\* current primary document when the cache was resolved after the most
\* recent FromReader, and the document of an earlier message otherwise.
C15_CacheAgreesWithResolvedReply ==
    (ret.op = "getCursorId" /\ ret.err = NilErr /\ ~ret.panic) =>
        /\ cursorCached
        /\ cacheSrc # NilDoc
        /\ ret.val = RawUnmarshalCursor(cacheSrc).id
        /\ parseOK = 1 => cacheSrc = CommandReply

C15_Witness ==
    /\ decodes = 2
    /\ pc = "done"
    /\ err = NilErr
    /\ ret.op = "getCursorId"
    /\ ret.err = NilErr
    /\ ret.val = 42
    /\ cacheSrc = ReplyDoc
    /\ CommandReply = EmptyDoc
    /\ parseCount = 0

\* The document parses and has no cursor.id field.
NoCursor(d) ==
    /\ d # NilDoc
    /\ WellFormed(d)
    /\ \A i \in 1..Len(Elements(d)) : Elements(d)[i].kind # KindCursorId

\* C16: reply without a cursor.  When getCursorId() has unmarshalled a
\* primary document that parses and has no cursor.id, it has returned
\* (0, nil) and memoized it (cursorCached = true, cursorId = 0); every call
\* since returned (0, nil) too, with no further unmarshal and no error.
C16_MissingCursorIsZero ==
    (pc \in {"idle", "done"} /\ parseCount >= 1 /\ NoCursor(CommandReply)) =>
        /\ cursorCached
        /\ cursorId = 0
        /\ cursorRets = {<<0, NilErr>>}
        /\ parseCount = 1
        /\ parseOK = 1

C16_Witness ==
    /\ pc = "done"
    /\ err = NilErr
    /\ CommandReply = EmptyDoc
    /\ cursorCalls = 2
    /\ parseCount = 1
    /\ cursorCached
    /\ cursorId = 0
    /\ ret.op = "getCursorId"
    /\ ret.val = 0
    /\ ret.err = NilErr
====
